---- MODULE Spec2Model ----
(***************************************************************************)
(* A model of the sie4 parsing core: the delimiter scanner                 *)
(* (parsers::take_until_unbalanced), the field decoders and record grammar *)
(* (item.rs), the item dispatcher (Item::parse) and the streaming reader   *)
(* (reader.rs).  Bytes are modelled as one-character strings, byte spans   *)
(* as sequences of them.                                                   *)
(***************************************************************************)
EXTENDS Integers, Sequences, FiniteSets, TLC

VARIABLES
    \* ---- Reader (reader.rs) ----
    stream,           \* the bytes the underlying source will deliver
    filled,           \* how many bytes of the stream are in the buffer (inner.cap)
    consumed,         \* how many bytes of the stream have been consumed (inner.pos)
    group,            \* Reader::group, the Group watermark
    out,              \* the results returned by next() so far
    pc,               \* position inside Reader::next
    ioErrs,           \* I/O errors the source has raised so far
    \* ---- one field decoder applied to one input (item.rs ParseField) ----
    fieldTy,
    fieldIn,
    fieldRes,
    \* ---- the delimiter scanner's loop (parsers.rs take_until_unbalanced) ----
    scanOpen,
    scanClose,
    scanIn,
    index,
    bracket_counter,
    scanPc,
    scanRes

readerVars == <<stream, filled, consumed, group, out, pc, ioErrs>>
fieldVars == <<fieldTy, fieldIn, fieldRes>>
scanVars == <<scanOpen, scanClose, scanIn, index, bracket_counter, scanPc, scanRes>>
vars == <<readerVars, fieldVars, scanVars>>

----------------------------------------------------------------------------
(* Bytes *)

BS == "\\"
QT == "\""
SP == " "
TAB == "\t"
NL == "\n"
CR == "\r"
HASH == "#"
LBRACE == "{"
RBRACE == "}"

Digits == {"0", "1", "2", "3", "4", "5", "6", "7", "8", "9"}

DigitVal == [c \in Digits |->
    CASE c = "0" -> 0 [] c = "1" -> 1 [] c = "2" -> 2 [] c = "3" -> 3
      [] c = "4" -> 4 [] c = "5" -> 5 [] c = "6" -> 6 [] c = "7" -> 7
      [] c = "8" -> 8 [] c = "9" -> 9]

\* s[from..] as a sequence (from is 1-based; empty when from > Len(s))
Drop(s, from) == SubSeq(s, from, Len(s))

\* all sequences over alphabet A of length at most n
RECURSIVE SeqsUpTo(_, _)
SeqsUpTo(A, n) ==
    IF n = 0 THEN {<<>>}
    ELSE LET shorter == SeqsUpTo(A, n - 1)
         IN shorter \cup {Append(s, a) : s \in {t \in shorter : Len(t) = n - 1}, a \in A}

----------------------------------------------------------------------------
(* Results of a parser: nom's IResult.  t is "ok", "err" (Err::Error),     *)
(* "fail" (Err::Failure), "inc" (Err::Incomplete) or "panic"; pos is the   *)
(* 1-based position of the remainder in the span that was parsed.          *)

Ok(pos, val) == [t |-> "ok", pos |-> pos, val |-> val]
Error == [t |-> "err", pos |-> 0, val |-> <<>>]
Failure == [t |-> "fail", pos |-> 0, val |-> <<>>]
Incomplete == [t |-> "inc", pos |-> 0, val |-> <<>>]
Panic == [t |-> "panic", pos |-> 0, val |-> <<>>]

\* no parser has been applied yet
NotApplied == [t |-> "unset", pos |-> 0, val |-> <<>>]

\* the parts of the state a specification does not exercise stay at rest
ReaderIdle ==
    /\ stream = <<>> /\ filled = 0 /\ consumed = 0 /\ group = "Flag"
    /\ out = <<>> /\ pc = "off" /\ ioErrs = 0

FieldIdle == fieldTy = "none" /\ fieldIn = <<>> /\ fieldRes = NotApplied

ScanIdle ==
    /\ scanOpen = LBRACE /\ scanClose = RBRACE /\ scanIn = <<>>
    /\ index = 0 /\ bracket_counter = 0 /\ scanPc = "off" /\ scanRes = NotApplied

----------------------------------------------------------------------------
(* The delimiter scanner: parsers.rs take_until_unbalanced                 *)

\* str::find(&[opening, closing, '\\']) on i[from..]: the 1-based position of
\* the first such byte at or after position from, or 0
RECURSIVE ScanFind(_, _, _, _)
ScanFind(i, from, o, c) ==
    IF from > Len(i) THEN 0
    ELSE IF i[from] \in {o, c, BS} THEN from
    ELSE ScanFind(i, from + 1, o, c)

ScanDone(idx, cnt, res) == [pc |-> "done", index |-> idx, counter |-> cnt, res |-> res]

\* the escape arm with the "skip also the following char" line left out
ScanEscapeArm_NoSkip(idx) == idx + 1

\* the escape arm of the match: skip the escape char and the char after it
\* (unwrap_or_default gives '\0', one byte long, when there is none)
ScanEscapeArm(idx) == idx + 1 + 1

\* the closing of the loop body with "index -= closing_bracket.len_utf8()" left out
ScanFound_NoUnconsume(i, idx, cnt) ==
    IF cnt = -1
    THEN ScanDone(idx, cnt, Ok(idx + 1, SubSeq(i, 1, idx)))
    ELSE [pc |-> "loop", index |-> idx, counter |-> cnt, res |-> NotApplied]

\* "if bracket_counter == -1 { index -= ...; return Ok((&i[index..], &i[0..index])) }"
ScanFound(i, idx, cnt) ==
    IF cnt = -1
    THEN ScanDone(idx - 1, cnt, Ok(idx, SubSeq(i, 1, idx - 1)))
    ELSE [pc |-> "loop", index |-> idx, counter |-> cnt, res |-> NotApplied]

\* after the while loop: "if bracket_counter == 0 { Ok(("", i)) } else { Err(Error) }"
ScanExhausted(i, idx, cnt) ==
    IF cnt = 0
    THEN ScanDone(idx, cnt, Ok(Len(i) + 1, i))
    ELSE ScanDone(idx, cnt, Error)

\* one evaluation of the while condition and, if it holds, of the loop body
ScanIter(i, o, c, idx, cnt) ==
    IF idx > Len(i)
    THEN ScanDone(idx, cnt, Panic)            \* &i[index..] out of range
    ELSE LET k == ScanFind(i, idx + 1, o, c)
         IN IF k = 0 THEN ScanExhausted(i, idx, cnt)
            ELSE IF i[k] = BS THEN ScanFound(i, ScanEscapeArm(k - 1), cnt)
            ELSE IF i[k] = o THEN ScanFound(i, k, cnt + 1)
            ELSE ScanFound(i, k, cnt - 1)

\* the whole closure: iterate from (idx, cnt) to the returned result
RECURSIVE ScanRun(_, _, _, _, _)
ScanRun(i, o, c, idx, cnt) ==
    LET st == ScanIter(i, o, c, idx, cnt)
    IN IF st.pc = "done" THEN st.res ELSE ScanRun(i, o, c, st.index, st.counter)

take_until_unbalanced(o, c, i) == ScanRun(i, o, c, 0, 0)

\* the doc test's parser: delimited(tag(o), take_until_unbalanced(o, c), tag(c)),
\* with nom's complete tag; val is the content, pos the remainder
Delimited(o, c, i) ==
    IF Len(i) = 0 \/ i[1] # o THEN Error
    ELSE LET r == take_until_unbalanced(o, c, Drop(i, 2))
         IN IF r.t # "ok" THEN r
            ELSE IF r.pos + 1 > Len(i) \/ i[r.pos + 1] # c THEN Error
            ELSE Ok(r.pos + 2, r.val)

----------------------------------------------------------------------------
(* nom's streaming combinators as item.rs uses them; s is the span, p the  *)
(* 1-based position parsing starts at                                      *)

\* the least member of a non-empty set of positions
Least(P) == CHOOSE k \in P : \A j \in P : k <= j

\* the first position at or after p whose byte is not in S (Len(s) + 1: none)
FirstNotIn(S, s, p) ==
    LET stops == {k \in p..Len(s) : s[k] \notin S}
    IN IF stops = {} THEN (IF p > Len(s) THEN p ELSE Len(s) + 1) ELSE Least(stops)

\* the first position at or after p whose byte is in S (Len(s) + 1: none)
FirstIn(S, s, p) ==
    LET stops == {k \in p..Len(s) : s[k] \in S}
    IN IF stops = {} THEN (IF p > Len(s) THEN p ELSE Len(s) + 1) ELSE Least(stops)

\* bytes::streaming::take_while(|c| c in S): needs a byte that ends the run
take_while(S, s, p) ==
    LET k == FirstNotIn(S, s, p)
    IN IF k > Len(s) THEN Incomplete ELSE Ok(k, SubSeq(s, p, k - 1))

\* bytes::streaming::take_while(|c| c not in S)
take_till(S, s, p) ==
    LET k == FirstIn(S, s, p)
    IN IF k > Len(s) THEN Incomplete ELSE Ok(k, SubSeq(s, p, k - 1))

\* bytes::streaming::tag(t)
tag(t, s, p) ==
    LET have == Len(s) - p + 1
        n == IF have < Len(t) THEN have ELSE Len(t)
    IN IF \E j \in 1..n : s[p + j - 1] # t[j] THEN Error
       ELSE IF n < Len(t) THEN Incomplete
       ELSE Ok(p + Len(t), t)

\* character::streaming::char(c)
char(c, s, p) ==
    IF p > Len(s) THEN Incomplete
    ELSE IF s[p] = c THEN Ok(p + 1, <<c>>)
    ELSE Error

\* character::streaming::digit1
digit1(s, p) ==
    LET k == FirstNotIn(Digits, s, p)
    IN IF k > Len(s) THEN Incomplete
       ELSE IF k = p THEN Error
       ELSE Ok(k, SubSeq(s, p, k - 1))

\* combinator::opt with the Err::Error -> None mapping left out
Opt_Strict(r, p) ==
    IF r.t = "ok" THEN Ok(r.pos, <<"Some", r.val>>) ELSE r

\* combinator::opt: Err::Error becomes None with the input unconsumed;
\* Failure and Incomplete pass through
Opt(r, p) ==
    IF r.t = "ok" THEN Ok(r.pos, <<"Some", r.val>>)
    ELSE IF r.t = "err" THEN Ok(p, <<"None">>)
    ELSE r

\* a cut that leaves the error recoverable
Cut_Recoverable(r) == r

\* combinator::cut: Err::Error becomes Err::Failure
Cut(r) == IF r.t = "err" THEN Failure ELSE r

\* combinator::complete: Err::Incomplete becomes Err::Error
Complete(r) == IF r.t = "inc" THEN Error ELSE r

\* the ? operator: on anything but Ok return it, else go on with the value
Bind(r, K(_)) == IF r.t = "ok" THEN K(r) ELSE r

\* branch::alt, two alternatives: only Err::Error moves on to the next
Alt(r, other) == IF r.t = "err" THEN other ELSE r

\* multi::many0, one round: r is the element parser's result at position q,
\* acc the elements so far, More the rounds after a successful one
Many0(r, q, acc, More(_)) ==
    IF r.t = "err" THEN Ok(q, acc)
    ELSE IF r.t # "ok" THEN r
    ELSE IF r.pos = q THEN Error
    ELSE More(r)

\* alt over tag literals tried in order
RECURSIVE AltTags(_, _, _, _)
AltTags(ts, k, s, p) ==
    IF k > Len(ts) THEN Error
    ELSE Alt(tag(ts[k], s, p), AltTags(ts, k + 1, s, p))

----------------------------------------------------------------------------
(* The token parsers item.rs imports from parsers (byte versions)          *)

Whitespace == {SP, TAB}
LineBreak == {NL, CR}
FieldSep == Whitespace \cup LineBreak

\* the bytes that end a bare token
TextStop == FieldSep \cup {HASH, LBRACE, RBRACE, QT}

\* parsers::unquoted_text: a non-empty bare run up to the next separator
unquoted_text(s, p) ==
    LET k == FirstIn(TextStop, s, p)
    IN IF k > Len(s) THEN Incomplete
       ELSE IF k = p THEN Error
       ELSE Ok(k, SubSeq(s, p, k - 1))

\* the position of the quote that closes a quoted string whose content starts
\* at k (a backslash-escaped quote does not close it); 0 when there is none yet
QuoteEnd(s, k) ==
    LET ends == {j \in k..Len(s) : s[j] = QT /\ ~(j > k /\ s[j - 1] = BS)}
    IN IF ends = {} THEN 0 ELSE Least(ends)

\* the content of a quoted string with \" read as a literal quote
Unescape(t) ==
    LET keep == {j \in 1..Len(t) : ~(t[j] = BS /\ j < Len(t) /\ t[j + 1] = QT)}
    IN [i \in 1..Cardinality(keep) |->
          t[CHOOSE j \in keep : Cardinality({m \in keep : m < j}) = i - 1]]

\* the quoted string whose opening quote ends just before position k
QuotedFrom(s, k, e) ==
    IF e = 0 THEN Incomplete ELSE Ok(e + 1, Unescape(SubSeq(s, k, e - 1)))

quoted_text(s, p) ==
    Bind(char(QT, s, p), LAMBDA q : QuotedFrom(s, q.pos, QuoteEnd(s, q.pos)))

\* parsers::text: a double-quoted string or else a bare token
text(s, p) == Alt(quoted_text(s, p), unquoted_text(s, p))

\* the value of a run of digits
RECURSIVE Num(_)
Num(t) == IF Len(t) = 0 THEN 0 ELSE 10 * Num(SubSeq(t, 1, Len(t) - 1)) + DigitVal[t[Len(t)]]

IsLeap(y) == (y % 4 = 0 /\ y % 100 # 0) \/ y % 400 = 0

DaysIn(y, m) ==
    IF m = 2 THEN (IF IsLeap(y) THEN 29 ELSE 28)
    ELSE IF m \in {4, 6, 9, 11} THEN 30
    ELSE 31

\* Date::parse(t, DATE_FORMAT) with DATE_FORMAT = "[year][month][day]"
ValidDate(t) ==
    /\ Len(t) = 8
    /\ \A j \in 1..8 : t[j] \in Digits
    /\ LET y == Num(SubSeq(t, 1, 4))
           m == Num(SubSeq(t, 5, 6))
           d == Num(SubSeq(t, 7, 8))
       IN m \in 1..12 /\ d \in 1..DaysIn(y, m)

\* parsers::date on a whole token
date(t) ==
    IF ValidDate(t)
    THEN Ok(Len(t) + 1, <<Num(SubSeq(t, 1, 4)), Num(SubSeq(t, 5, 6)), Num(SubSeq(t, 7, 8))>>)
    ELSE Error

\* some rows of iso_currency's code table
CurrencyCodes ==
    {<<"S", "E", "K">>, <<"E", "U", "R">>, <<"U", "S", "D">>, <<"N", "O", "K">>}

\* parsers::from_str::<Currency> on a whole token
from_str_currency(t) == IF t \in CurrencyCodes THEN Ok(Len(t) + 1, t) ELSE Error

\* rust_decimal's FromStr: an optional sign, digits, at most one '.' radix point
DecimalSyntax(t) ==
    LET body == IF Len(t) > 0 /\ t[1] \in {"-", "+"} THEN Drop(t, 2) ELSE t
    IN /\ \A j \in 1..Len(body) : body[j] \in Digits \cup {"."}
       /\ Cardinality({j \in 1..Len(body) : body[j] = "."}) <= 1
       /\ \E j \in 1..Len(body) : body[j] \in Digits

\* parsers::from_str::<Decimal> on a whole token
from_str_decimal(t) == IF DecimalSyntax(t) THEN Ok(Len(t) + 1, t) ELSE Error

----------------------------------------------------------------------------
(* Field decoders: item.rs, the ParseField implementations                 *)

\* impl ParseField for String
ParseString(s, p) == text(s, p)

\* impl ParseField for bool
ParseBool(s, p) ==
    Bind(AltTags(<< <<"0">>, <<"1">> >>, 1, s, p),
         LAMBDA r : Ok(r.pos, IF r.val = <<"0">> THEN <<"false">> ELSE <<"true">>))

\* impl ParseField for Date
ParseDate(s, p) ==
    Bind(unquoted_text(s, p), LAMBDA u :
    Bind(Cut(date(u.val)), LAMBDA d :
    Ok(u.pos, d.val)))

\* impl ParseField for Currency
ParseCurrency(s, p) ==
    Bind(unquoted_text(s, p), LAMBDA u :
    Bind(Cut(from_str_currency(u.val)), LAMBDA c :
    Ok(u.pos, c.val)))

\* impl ParseField for Decimal
ParseDecimal(s, p) ==
    Bind(unquoted_text(s, p), LAMBDA u :
    Bind(Cut(from_str_decimal(u.val)), LAMBDA v :
    Ok(u.pos, v.val)))

\* a run of digits without its leading zeros
RECURSIVE StripZeros(_)
StripZeros(t) == IF Len(t) > 1 /\ t[1] = "0" THEN StripZeros(Drop(t, 2)) ELSE t

\* a <= b for two runs of digits of the same length
RECURSIVE DigitsLeq(_, _)
DigitsLeq(a, b) ==
    IF Len(a) = 0 THEN TRUE
    ELSE IF DigitVal[a[1]] < DigitVal[b[1]] THEN TRUE
    ELSE IF DigitVal[a[1]] > DigitVal[b[1]] THEN FALSE
    ELSE DigitsLeq(Drop(a, 2), Drop(b, 2))

FitsIn(t, limit) ==
    LET d == StripZeros(t)
    IN Len(d) < Len(limit) \/ (Len(d) = Len(limit) /\ DigitsLeq(d, limit))

U32Max == <<"4", "2", "9", "4", "9", "6", "7", "2", "9", "5">>
I32Max == <<"2", "1", "4", "7", "4", "8", "3", "6", "4", "7">>
I32MinAbs == <<"2", "1", "4", "7", "4", "8", "3", "6", "4", "8">>

\* str::parse::<i32 / u32> of the recognized sign and digits (map_res)
ParseInt(signed, neg, digits, pos) ==
    LET fits == IF signed
                THEN FitsIn(digits, IF neg THEN I32MinAbs ELSE I32Max)
                ELSE ~neg /\ FitsIn(digits, U32Max)
        mag == StripZeros(digits)
    IN IF ~fits THEN Error
       ELSE Ok(pos, IF neg /\ mag # <<"0">> THEN <<"-">> \o mag ELSE mag)

\* parse_num_impl!: map_res(recognize(preceded(opt(tag("-")), cut(digit1))), parse)
ParseNum(signed, s, p) ==
    Bind(Opt(tag(<<"-">>, s, p), p), LAMBDA m :
    Bind(Cut(digit1(s, m.pos)), LAMBDA d :
    ParseInt(signed, m.pos # p, d.val, d.pos)))

\* impl ParseField for FormatType
ParseFormatType(s, p) == tag(<<"P", "C", "8">>, s, p)

\* impl ParseField for TypeNo
ParseTypeNo(s, p) == tag(<<"4">>, s, p)

\* impl ParseField for ChartAccountsType
ParseChartAccountsType(s, p) ==
    AltTags(<< <<"B", "A", "S", "9", "5">>, <<"B", "A", "S", "9", "6">>,
               <<"E", "U", "B", "A", "S", "9", "7">>, <<"N", "E", "2", "0", "0", "7">> >>,
            1, s, p)

\* parsers::in_curly_braces: '{', the delimiter scanner, '}'; val is the region
\* and pos the position after the closing brace
in_curly_braces(s, p) ==
    Bind(char(LBRACE, s, p), LAMBDA a :
    Bind(take_until_unbalanced(LBRACE, RBRACE, Drop(s, a.pos)), LAMBDA r :
    Bind(char(RBRACE, s, p + r.pos), LAMBDA z :
    Ok(z.pos, r.val))))

\* many0(complete(String::parse_field)) over a closed region
RECURSIVE Many0Text(_, _, _)
Many0Text(o, q, acc) ==
    Many0(Complete(ParseString(o, q)), q, acc,
          LAMBDA r : Many0Text(o, r.pos, Append(acc, r.val)))

\* impl ParseField for List<String>
ParseList(s, p) ==
    Bind(in_curly_braces(s, p), LAMBDA b :
    Bind(Many0Text(b.val, 1, <<>>), LAMBDA m :
    Ok(b.pos, m.val)))

TransFields ==
    <<"u32", "List<String>", "Decimal", "Option<Date>", "Option<String>",
      "Option<String>", "Option<String>">>

TransLabel == <<"T", "R", "A", "N", "S">>

RECURSIVE ParseField(_, _, _)
RECURSIVE ParseFields(_, _, _, _, _)
RECURSIVE Many0Items(_, _, _, _, _)

\* the field types whose value may be absent
OptionTypes == {"Option<String>", "Option<Date>", "Option<Currency>"}

\* a parse_item that takes the end of the buffered input for the absence of
\* the optional fields still to come
ParseFields_EndIsAbsent(fs, k, s, p, acc) ==
    IF k > Len(fs) THEN Ok(p, acc)
    ELSE IF p > Len(s) /\ \A j \in k..Len(fs) : fs[j] \in OptionTypes
         THEN Ok(p, acc \o [j \in 1..(Len(fs) - k + 1) |-> <<"None">>])
    ELSE Bind(take_while(Whitespace, s, p), LAMBDA w :
         Bind(ParseField(fs[k], s, w.pos), LAMBDA f :
         ParseFields(fs, k + 1, s, f.pos, Append(acc, f.val))))

\* item_impl!: fn parse_item, fields k.. of the list fs, acc the values so far
ParseFields(fs, k, s, p, acc) ==
    IF k > Len(fs) THEN Ok(p, acc)
    ELSE Bind(take_while(Whitespace, s, p), LAMBDA w :
         Bind(ParseField(fs[k], s, w.pos), LAMBDA f :
         ParseFields(fs, k + 1, s, f.pos, Append(acc, f.val))))

parse_item(fs, s, p) == ParseFields(fs, 1, s, p, <<>>)

\* the closure SubItems<T> repeats: skip to '#', the label, T::parse_item
SubItem(label, fs, o, q) ==
    Bind(take_till({HASH}, o, q), LAMBDA a :
    Bind(char(HASH, o, a.pos), LAMBDA h :
    Bind(tag(label, o, h.pos), LAMBDA l :
    parse_item(fs, o, l.pos))))

\* many0(complete(closure)) over a closed region
Many0Items(label, fs, o, q, acc) ==
    Many0(Complete(SubItem(label, fs, o, q)), q, acc,
          LAMBDA r : Many0Items(label, fs, o, r.pos, Append(acc, r.val)))

\* impl ParseField for SubItems<T>, T = Trans
ParseSubItems(label, fs, s, p) ==
    Bind(take_while(FieldSep, s, p), LAMBDA w :
    Bind(in_curly_braces(s, w.pos), LAMBDA b :
    Bind(Many0Items(label, fs, b.val, 1, <<>>), LAMBDA m :
    Ok(b.pos, m.val))))

\* <$ty>::parse_field by the field's declared type
ParseField(ty, s, p) ==
    CASE ty = "String" -> ParseString(s, p)
      [] ty = "bool" -> ParseBool(s, p)
      [] ty = "Date" -> ParseDate(s, p)
      [] ty = "Currency" -> ParseCurrency(s, p)
      [] ty = "Decimal" -> ParseDecimal(s, p)
      [] ty = "i32" -> ParseNum(TRUE, s, p)
      [] ty = "u32" -> ParseNum(FALSE, s, p)
      [] ty = "FormatType" -> ParseFormatType(s, p)
      [] ty = "TypeNo" -> ParseTypeNo(s, p)
      [] ty = "ChartAccountsType" -> ParseChartAccountsType(s, p)
      [] ty = "Option<String>" -> Opt(ParseString(s, p), p)
      [] ty = "Option<Date>" -> Opt(ParseDate(s, p), p)
      [] ty = "Option<Currency>" -> Opt(ParseCurrency(s, p), p)
      [] ty = "List<String>" -> ParseList(s, p)
      [] ty = "SubItems<Trans>" -> ParseSubItems(TransLabel, TransFields, s, p)

----------------------------------------------------------------------------
(* The record kinds (items_impl!) and the dispatcher Item::parse           *)

Groups == <<"Flag", "Identification", "Account", "Balance">>

\* the derived Ord of enum Group: the rank is the declaration order
GroupRank(g) == CHOOSE k \in 1..Len(Groups) : Groups[k] = g

BalanceFields == <<"i32", "u32", "Decimal", "Option<String>">>

Kind(name, label, grp, fs) == [name |-> name, tag |-> label, group |-> grp, fields |-> fs]

\* the variants of Item in declaration order, which is the order alt tries them
Kinds == <<
    Kind("Adress", <<"A", "D", "R", "E", "S", "S">>, "Identification",
         <<"String", "String", "String", "String">>),
    Kind("BKod", <<"B", "K", "O", "D">>, "Identification", <<"String">>),
    Kind("Flagga", <<"F", "L", "A", "G", "G", "A">>, "Flag", <<"bool">>),
    Kind("FNamn", <<"F", "N", "A", "M", "N">>, "Identification", <<"String">>),
    Kind("Format", <<"F", "O", "R", "M", "A", "T">>, "Identification", <<"FormatType">>),
    Kind("Gen", <<"G", "E", "N">>, "Identification", <<"Date", "Option<String>">>),
    Kind("Ib", <<"I", "B">>, "Balance", BalanceFields),
    Kind("Konto", <<"K", "O", "N", "T", "O">>, "Account", <<"u32", "String">>),
    Kind("KpTyp", <<"K", "P", "T", "Y", "P">>, "Identification", <<"ChartAccountsType">>),
    Kind("Orgnr", <<"O", "R", "G", "N", "R">>, "Identification", <<"String">>),
    Kind("Program", <<"P", "R", "O", "G", "R", "A", "M">>, "Identification",
         <<"String", "String">>),
    Kind("Rar", <<"R", "A", "R">>, "Identification", <<"i32", "Date", "Date">>),
    Kind("Res", <<"R", "E", "S">>, "Balance", BalanceFields),
    Kind("SieTyp", <<"S", "I", "E", "T", "Y", "P">>, "Identification", <<"TypeNo">>),
    Kind("Trans", TransLabel, "Balance", TransFields),
    Kind("Ub", <<"U", "B">>, "Balance", BalanceFields),
    Kind("Valuta", <<"V", "A", "L", "U", "T", "A">>, "Identification", <<"Currency">>),
    Kind("Ver", <<"V", "E", "R">>, "Balance",
         <<"String", "u32", "Date", "Option<String>", "Option<Date>", "Option<String>",
           "SubItems<Trans>">>) >>

\* Item::group
GroupOf(item) == (CHOOSE k \in {Kinds[j] : j \in 1..Len(Kinds)} : k.name = item[1]).group

\* map(preceded(tag(NAME), NAME::parse_item), Self::NAME) for variant k
ParseKind(k, s, p) ==
    Bind(tag(Kinds[k].tag, s, p), LAMBDA t :
    Bind(parse_item(Kinds[k].fields, s, t.pos), LAMBDA b :
    Ok(b.pos, <<Kinds[k].name, b.val>>)))

\* alt((..., ...)) from variant k on, in declaration order
RECURSIVE AltKinds(_, _, _)
AltKinds(k, s, p) ==
    IF k > Len(Kinds) THEN Error
    ELSE Alt(ParseKind(k, s, p), AltKinds(k + 1, s, p))

\* Item::parse
ItemParse(s) ==
    Bind(take_while(FieldSep, s, 1), LAMBDA w :
    Bind(tag(<<HASH>>, s, w.pos), LAMBDA h :
    AltKinds(1, s, h.pos)))

----------------------------------------------------------------------------
(* Specification of the scanner loop on bounded inputs *)

MaxScanLen == 5

\* the doc test's input after the opening '<' that delimited() consumed
DocTestInput ==
    <<"<", "i", "n", "s", "i", "d", "e", ">", "i", "n", "s", "i", "d", "e", ">", "a", "b", "c">>

BracketPairs == {<<"<", ">">>, <<LBRACE, RBRACE>>}

ScanInputs(o, c) ==
    SeqsUpTo({o, c, BS, "a"}, MaxScanLen) \cup (IF o = "<" THEN {DocTestInput} ELSE {})

ScanInit ==
    /\ \E p \in BracketPairs :
         /\ scanOpen = p[1] /\ scanClose = p[2]
         /\ scanIn \in ScanInputs(p[1], p[2])
    /\ index = 0
    /\ bracket_counter = 0
    /\ scanPc = "loop"
    /\ scanRes = NotApplied
    /\ ReaderIdle
    /\ FieldIdle

ScanStep ==
    /\ scanPc = "loop"
    /\ LET st == ScanIter(scanIn, scanOpen, scanClose, index, bracket_counter)
       IN /\ index' = st.index
          /\ bracket_counter' = st.counter
          /\ scanPc' = st.pc
          /\ scanRes' = st.res
    /\ UNCHANGED <<scanOpen, scanClose, scanIn, readerVars, fieldVars>>

ScanNext == ScanStep

SpecScan == ScanInit /\ [][ScanNext]_vars

----------------------------------------------------------------------------
(* What the scanner is to compute, stated without the loop *)

\* byte k of i follows an escape byte that is not itself escaped
RECURSIVE Escaped(_, _)
Escaped(i, k) == k > 1 /\ i[k - 1] = BS /\ ~Escaped(i, k - 1)

\* the number of unescaped bytes equal to b before position k
CountBefore(i, b, k) == Cardinality({j \in 1..(k - 1) : i[j] = b /\ ~Escaped(i, j)})

\* the positions of the unescaped closing delimiters that no earlier unescaped
\* opening delimiter matches
Unbalanced(i, o, c) ==
    {k \in 1..Len(i) : /\ i[k] = c
                       /\ ~Escaped(i, k)
                       /\ CountBefore(i, o, k) = CountBefore(i, c, k)}

FirstUnbalanced(i, o, c) ==
    CHOOSE k \in Unbalanced(i, o, c) : \A j \in Unbalanced(i, o, c) : k <= j

\* the position the current loop iteration examines (0: none is left)
ScanAt == ScanFind(scanIn, index + 1, scanOpen, scanClose)

\* C9: when the input holds an unbalanced closing delimiter, the scanner
\* returns as content exactly the bytes before the first one (nested balanced
\* pairs included) and the remainder starts at that delimiter, so content
\* followed by remainder is the input; the doc test's
\* "<<inside>inside>abc" gives content "<inside>inside" and leaves "abc".
C9_ContentUpToUnbalancedClose ==
    /\ (scanPc = "done" /\ Unbalanced(scanIn, scanOpen, scanClose) # {}) =>
          LET k == FirstUnbalanced(scanIn, scanOpen, scanClose)
          IN /\ scanRes = Ok(k, SubSeq(scanIn, 1, k - 1))
             /\ scanRes.val \o Drop(scanIn, scanRes.pos) = scanIn
             /\ scanIn[scanRes.pos] = scanClose
    /\ (scanPc = "done" /\ scanIn = DocTestInput) =>
          LET r == Delimited("<", ">", <<"<">> \o scanIn)
          IN /\ r.t = "ok"
             /\ r.val = <<"<", "i", "n", "s", "i", "d", "e", ">", "i", "n", "s", "i", "d", "e">>
             /\ Drop(<<"<">> \o scanIn, r.pos) = <<"a", "b", "c">>
             /\ scanRes.val = r.val

\* a finished scan whose content holds a nested balanced pair
C9_Witness ==
    /\ scanPc = "done"
    /\ scanRes.t = "ok"
    /\ scanRes.pos <= Len(scanIn)
    /\ \E j \in 1..Len(scanRes.val) : scanRes.val[j] = scanOpen
    /\ \E j \in 1..Len(scanRes.val) : scanRes.val[j] = scanClose

\* C10: an iteration that finds an escape byte skips it and the byte after
\* it without changing the depth or ending the scan, so the byte after an
\* escape is never examined as a delimiter and never ends the region.
C10_EscapedPairLeavesDepth ==
    [][(scanPc = "loop" /\ index <= Len(scanIn) /\ ScanAt # 0) =>
         /\ ~Escaped(scanIn, ScanAt)
         /\ scanIn[ScanAt] = BS =>
               /\ bracket_counter' = bracket_counter
               /\ index' = ScanAt + 1
               /\ scanPc' = "loop"
         /\ (scanPc' = "done" /\ scanRes'.t = "ok" /\ scanRes'.pos <= Len(scanIn)) =>
               ~Escaped(scanIn, scanRes'.pos)]_vars

\* an escaped closing delimiter was skipped at depth zero
C10_Witness ==
    /\ scanPc = "loop"
    /\ Len(scanIn) >= 3
    /\ scanIn[1] = BS
    /\ scanIn[2] = scanClose
    /\ index = 2
    /\ bracket_counter = 0

----------------------------------------------------------------------------
(* Specification of one field decoder applied to one bounded input *)

FieldTypes == {"Option<Date>", "Option<Currency>", "Option<String>", "Date", "Currency"}

DateYears == {<<"2", "0", "2", "0">>, <<"2", "0", "2", "3">>, <<"1", "9", "0", "0">>}
DateMonths == {<<"0", "0">>, <<"0", "2">>, <<"1", "2">>, <<"1", "3">>}
DateDays == {<<"0", "0">>, <<"0", "1">>, <<"2", "9">>, <<"3", "0">>, <<"3", "1">>, <<"3", "2">>}

\* tokens a field may start with: eight digits (real dates and not), other
\* digit runs, bare words (currency codes and not), quoted strings, nothing
FieldTokens ==
    {y \o m \o d : y \in DateYears, m \in DateMonths, d \in DateDays}
    \cup {<<"2", "0", "2", "3", "0", "3", "1">>,
          <<"2", "0", "2", "3", "0", "3", "1", "4", "0">>,
          <<"2", "0", "2", "3", "-", "0", "3">>,
          <<"a", "b", "c">>, <<"x", "2", "0", "2", "3", "0", "3", "1", "4">>,
          <<"S", "E", "K">>, <<"E", "U", "R">>, <<"B", "T", "C">>, <<"s", "e", "k">>,
          <<QT, "n", "e", "x", "t", QT>>, <<QT, QT>>,
          <<>>}

\* what follows the token in the buffer
FieldTails ==
    {<<>>, <<SP>>, <<NL>>, <<TAB, "x", NL>>, <<SP, QT, "n", "e", "x", "t", QT>>,
     <<RBRACE>>, <<HASH>>}

FieldInputs == {t \o f : t \in FieldTokens, f \in FieldTails}

FieldInit ==
    /\ fieldTy \in FieldTypes
    /\ fieldIn \in FieldInputs
    /\ fieldRes = NotApplied
    /\ ReaderIdle
    /\ ScanIdle

\* <fieldTy>::parse_field(Span::new(fieldIn))
ApplyField ==
    /\ fieldRes = NotApplied
    /\ fieldRes' = ParseField(fieldTy, fieldIn, 1)
    /\ UNCHANGED <<fieldTy, fieldIn, readerVars, scanVars>>

FieldNext == ApplyField

SpecField == FieldInit /\ [][FieldNext]_vars

\* the bare token the input starts with, when a byte that ends it is buffered
HasBareToken(i) ==
    LET k == FirstIn(TextStop, i, 1) IN 1 < k /\ k <= Len(i)

BareToken(i) == SubSeq(i, 1, FirstIn(TextStop, i, 1) - 1)

EightDigits(t) == Len(t) = 8 /\ \A j \in 1..8 : t[j] \in Digits

InvalidDateInput == <<"2", "0", "2", "0", "1", "3", "0", "1", SP, QT, "n", "e", "x", "t", QT>>
InvalidCurrencyInput == <<"B", "T", "C", SP, QT, "n", "e", "x", "t", QT>>
MissingDateInput == <<SP, QT, "n", "e", "x", "t", QT>>

\* C7: Optional<Date> on a token of eight digits that is no calendar date,
\* and Optional<Currency> on a bare token that is no currency code, is a hard
\* error (Err::Failure), never None; so for 20201301 and BTC.
C7_InvalidValueIsHardError ==
    (fieldRes # NotApplied /\ HasBareToken(fieldIn)) =>
        /\ (fieldTy = "Option<Date>" /\ EightDigits(BareToken(fieldIn))
              /\ ~ValidDate(BareToken(fieldIn))) => fieldRes.t = "fail"
        /\ (fieldTy = "Option<Currency>" /\ BareToken(fieldIn) \notin CurrencyCodes)
              => fieldRes.t = "fail"
        /\ (fieldTy = "Option<Date>" /\ fieldIn = InvalidDateInput) => fieldRes.t = "fail"
        /\ (fieldTy = "Option<Currency>" /\ fieldIn = InvalidCurrencyInput)
              => fieldRes.t = "fail"

\* Optional<Date> was applied to the test's 20201301 "next"
C7_Witness ==
    /\ fieldTy = "Option<Date>"
    /\ fieldIn = InvalidDateInput
    /\ fieldRes.t = "fail"

\* C8 as stated: Optional<Date> yields None, input unconsumed, for every next
\* token that is not digit-shaped, a bare non-digit word included.
C8_NoneWheneverNotDigitShaped ==
    (/\ fieldRes # NotApplied
     /\ fieldTy = "Option<Date>"
     /\ Len(fieldIn) > 0
     /\ fieldIn[1] \notin Digits
     /\ fieldIn[1] \in TextStop \/ HasBareToken(fieldIn))
        => fieldRes = Ok(1, <<"None">>)

\* C8 amended: Optional<Date> yields None, input unconsumed, exactly when the
\* next byte cannot begin a bare token (a quote, a separator, '#', a brace);
\* a complete bare token that is not a date, a non-digit word included, is a
\* hard error.
C8_NoneWhenNoBareToken ==
    (fieldRes # NotApplied /\ fieldTy = "Option<Date>" /\ Len(fieldIn) > 0) =>
        /\ fieldIn[1] \in TextStop => fieldRes = Ok(1, <<"None">>)
        /\ (HasBareToken(fieldIn) /\ ~ValidDate(BareToken(fieldIn))) => fieldRes.t = "fail"
        /\ fieldRes = Ok(1, <<"None">>) => fieldIn[1] \in TextStop

\* Optional<Date> was applied to the test's missing date, a quoted string next
C8_Witness ==
    /\ fieldTy = "Option<Date>"
    /\ fieldIn = MissingDateInput
    /\ fieldRes = Ok(1, <<"None">>)

----------------------------------------------------------------------------
(* The streaming reader: reader.rs                                         *)

\* the results next() hands to the caller
ResOk(item) == <<"Ok", item>>
ResErr(e) == <<"Err", e>>
ResNone == <<"None">>
ResPanic == <<"Panic">>

\* an ordering check that lets every record through
OutOfOrder_Never(grp, item) == FALSE

\* "if self.group > item.group()"
OutOfOrder(grp, item) == GroupRank(grp) > GroupRank(GroupOf(item))

\* the match in which a Parse failure skips the first byte of the buffer
MatchArms_SkipOnFailure(r, grp) ==
    IF r.t \in {"err", "fail"}
    THEN [kind |-> "ret", res |-> ResErr("Parse"), offset |-> 1, group |-> grp]
    ELSE IF r.t = "ok"
    THEN [kind |-> "ret",
          res |-> IF OutOfOrder(grp, r.val) THEN ResErr("OutOfOrder") ELSE ResOk(r.val),
          offset |-> r.pos - 1,
          group |-> IF OutOfOrder(grp, r.val) THEN grp ELSE GroupOf(r.val)]
    ELSE IF r.t = "inc"
    THEN [kind |-> "fill", res |-> ResNone, offset |-> 0, group |-> grp]
    ELSE [kind |-> "panic", res |-> ResPanic, offset |-> 0, group |-> grp]

\* the arms of "match Item::parse(Span::new(buf))" for parse result r and
\* watermark grp: what the loop iteration does, before any refill
MatchArms(r, grp) ==
    CASE r.t = "ok" ->
           IF OutOfOrder(grp, r.val)
           THEN [kind |-> "ret", res |-> ResErr("OutOfOrder"), offset |-> r.pos - 1,
                 group |-> grp]
           ELSE [kind |-> "ret", res |-> ResOk(r.val), offset |-> r.pos - 1,
                 group |-> GroupOf(r.val)]
      [] r.t = "inc" ->
           [kind |-> "fill", res |-> ResNone, offset |-> 0, group |-> grp]
      [] r.t \in {"err", "fail"} ->
           [kind |-> "ret", res |-> ResErr("Parse"), offset |-> 0, group |-> grp]
      [] r.t = "panic" ->
           [kind |-> "panic", res |-> ResPanic, offset |-> 0, group |-> grp]

ParseOutcome(buf, grp) == MatchArms(ItemParse(buf), grp)

\* a refill that added nothing, surfaced as an error
RefillEmpty_AsError == ResErr("Parse")

\* "Ok(buf) if buf.len() == before_len => return None"
RefillEmpty == ResNone

----------------------------------------------------------------------------
(* Specification of the reader over bounded streams and chunkings *)

MaxRecords == 3
MaxPulls == 5
MaxChunk == 2
MaxIoErrs == 1

\* a Flag record
RecFlagga ==
    <<"#", "F", "L", "A", "G", "G", "A", " ", "1", "\n">>

\* an Identification record
RecBKod ==
    <<"#", "B", "K", "O", "D", " ", "x", "\n">>

\* an Account record
RecKonto ==
    <<"#", "K", "O", "N", "T", "O", " ", "1", " ", "a", "\n">>

\* a Balance record with one nested TRANS
RecVer ==
    <<"#", "V", "E", "R", " ", "A", " ", "1", " ", "2", "0", "2", "3", "0",
      "3", "1", "4", " ", "{", "#", "T", "R", "A", "N", "S", " ", "1", " ",
      "{", "}", " ", "1", "\n", "}", "\n">>

\* a marker whose tag is not known
RecUnknownTag ==
    <<"#", "X", "\n">>

\* a KONTO whose number is not digits
RecBadField ==
    <<"#", "K", "O", "N", "T", "O", " ", "x", "\n">>

\* a KONTO cut off inside its quoted name
RecTruncated ==
    <<"#", "K", "O", "N", "T", "O", " ", "1", " ", "\"", "a">>

Fragments ==
    {RecFlagga, RecBKod, RecKonto, RecVer, RecUnknownTag, RecBadField, RecTruncated}

\* the streams: up to n fragments one after the other
RECURSIVE StreamsOf(_)
StreamsOf(n) ==
    IF n = 0 THEN {<<>>}
    ELSE LET shorter == StreamsOf(n - 1)
         IN shorter \cup {s \o f : s \in shorter, f \in Fragments}

Streams == StreamsOf(MaxRecords)

\* Reader::new
ReaderInit ==
    /\ stream \in Streams
    /\ filled = 0
    /\ consumed = 0
    /\ group = "Flag"
    /\ out = <<>>
    /\ pc = "call"
    /\ ioErrs = 0
    /\ FieldIdle
    /\ ScanIdle

\* self.inner.buffer()
Buffer == SubSeq(stream, consumed + 1, filled)

\* what an iteration with outcome o does to the reader
Iterate(o) ==
    /\ consumed' = consumed + o.offset
    /\ group' = o.group
    /\ out' = IF o.kind = "fill" THEN out ELSE Append(out, o.res)
    /\ pc' = IF o.kind = "fill" THEN "fill"
             ELSE IF o.kind = "panic" THEN "panicked"
             ELSE "call"

\* the reader is about to parse its buffer: at the call of next() or after a
\* refill that added bytes ("continue")
AtParse == pc \in {"call", "retry"}

\* one iteration of the loop in Reader::next up to its return or its refill
ParseStep ==
    /\ AtParse
    /\ Len(out) < MaxPulls
    /\ Iterate(ParseOutcome(Buffer, group))
    /\ UNCHANGED <<stream, filled, ioErrs, fieldVars, scanVars>>

\* the chunk sizes the source may deliver when asked: at least one byte while
\* any is left, nothing at the end of the stream
ChunkSizes ==
    LET left == Len(stream) - filled
    IN IF left = 0 THEN {0} ELSE {n \in 1..left : n <= MaxChunk \/ n = left}

\* self.inner.fill_buf() returning Ok: no new byte ends the sequence, new bytes
\* continue the loop
FillBuf ==
    /\ pc = "fill"
    /\ \E n \in ChunkSizes :
         /\ filled' = filled + n
         /\ out' = IF n = 0 THEN Append(out, RefillEmpty) ELSE out
         /\ pc' = IF n = 0 THEN "call" ELSE "retry"
    /\ UNCHANGED <<stream, consumed, group, ioErrs, fieldVars, scanVars>>

\* self.inner.fill_buf() returning Err(e)
FillBufErr ==
    /\ pc = "fill"
    /\ ioErrs < MaxIoErrs
    /\ ioErrs' = ioErrs + 1
    /\ out' = Append(out, ResErr("Io"))
    /\ pc' = "call"
    /\ UNCHANGED <<stream, filled, consumed, group, fieldVars, scanVars>>

Next == ParseStep \/ FillBuf \/ FillBufErr

Spec == ReaderInit /\ [][Next]_vars


----------------------------------------------------------------------------
(* Properties of the reader *)

IsOk(res) == res[1] = "Ok"
IsErr(res) == res[1] = "Err"

IsPrefix(a, b) == Len(a) <= Len(b) /\ SubSeq(b, 1, Len(a)) = a

\* the results of n pulls when the source hands over the whole of stream s at
\* the first refill: o is the outcome of the iteration at consumed offset c
RECURSIVE WholePulls(_, _, _, _)
WholePulls(o, s, c, n) ==
    IF n = 0 THEN <<>>
    ELSE IF o.kind = "panic" THEN <<o.res>>
    ELSE IF o.kind = "fill"
         THEN <<RefillEmpty>> \o WholePulls(o, s, c, n - 1)
    ELSE <<o.res>> \o WholePulls(ParseOutcome(Drop(s, c + o.offset + 1), o.group),
                                 s, c + o.offset, n - 1)

WholeRun(s, n) == WholePulls(ParseOutcome(s, "Flag"), s, 0, n)

\* C1: as long as the source reports no I/O error, the results pulled so far
\* under any chunking are the first results of the run in which the source
\* delivers the whole stream at once.
C1_ChunkingInvisible ==
    ioErrs = 0 => IsPrefix(out, WholeRun(stream, MaxPulls))

\* C2: when the first pull returned a record and the second the OutOfOrder
\* failure, no later pull returns a record.
C2_NothingAfterOutOfOrder ==
    (Len(out) >= 2 /\ IsOk(out[1]) /\ out[2] = ResErr("OutOfOrder"))
        => \A k \in 3..Len(out) : ~IsOk(out[k])

\* the positions of out that hold a decoded record
OkAt == {k \in 1..Len(out) : IsOk(out[k])}

\* the Group of the last record emitted, Flag before the first
LastGroup ==
    IF OkAt = {} THEN "Flag"
    ELSE GroupOf(out[CHOOSE k \in OkAt : \A j \in OkAt : j <= k][2])

\* the watermark is the Group of the last emitted record and the Groups of the
\* emitted records never go down
WatermarkInv ==
    /\ group = LastGroup
    /\ \A j, k \in OkAt :
         j < k => GroupRank(GroupOf(out[j][2])) <= GroupRank(GroupOf(out[k][2]))

\* what a pull does with parse result r: a decoded record is emitted, and the
\* watermark set to its Group, iff that Group is not below the watermark
EmitRule(r) ==
    r.t = "ok" =>
        IF GroupRank(GroupOf(r.val)) >= GroupRank(group)
        THEN out' = Append(out, ResOk(r.val)) /\ group' = GroupOf(r.val)
        ELSE out' = Append(out, ResErr("OutOfOrder")) /\ group' = group

\* C3: the watermark starts at Flag (WatermarkInv in the initial state), never
\* decreases, a decoded record is emitted iff its Group is at least the
\* watermark, which then becomes that Group, and the Groups of the emitted
\* records are non-decreasing.
C3_WatermarkMonotone ==
    /\ []WatermarkInv
    /\ [][/\ GroupRank(group') >= GroupRank(group)
          /\ AtParse => EmitRule(ItemParse(Buffer))]_vars

\* two records of one Group emitted one after the other, then a record of a
\* lower Group refused
C3_Witness ==
    /\ Len(out) >= 3
    /\ IsOk(out[1]) /\ IsOk(out[2]) /\ out[3] = ResErr("OutOfOrder")
    /\ GroupOf(out[1][2]) = GroupOf(out[2][2])
    /\ group = GroupOf(out[2][2])
    /\ group # "Flag"

\* C4: a refill that adds no byte, asked for because the dispatcher needs more
\* bytes, ends the pull with end-of-sequence: nothing else is handed out and
\* neither the buffer nor the watermark moves.
C4_EmptyRefillEndsSequence ==
    [][(pc = "fill" /\ pc' # "fill" /\ filled' = filled /\ ioErrs' = ioErrs)
          => /\ out' = Append(out, ResNone)
             /\ consumed' = consumed
             /\ group' = group]_vars

\* a stream cut off inside a record: all of it is buffered, part of it is
\* unconsumed, and the last pull returned end-of-sequence
C4_Witness ==
    /\ Len(out) >= 1
    /\ out[Len(out)] = ResNone
    /\ filled = Len(stream)
    /\ consumed < filled
    /\ \A k \in 1..Len(out) : ~IsErr(out[k])

\* C5: no pull after the first error returns an error or a record.
C5_AtMostOneError ==
    \A j, k \in 1..Len(out) :
        (j < k /\ IsErr(out[j])) => ~IsErr(out[k]) /\ ~IsOk(out[k])

\* C6: a call of next() that hands out a record or an error leaves the reader
\* changed (its buffer or its watermark). A call that does not is repeated
\* unchanged by every later call, since next() depends on nothing else, and
\* the consumer that pulls until end-of-sequence never stops.
C6_EveryPullProgresses ==
    [][(pc = "call" /\ pc' = "call" /\ Len(out') = Len(out) + 1)
          => <<consumed', filled', group'>> # <<consumed, filled, group>>]_vars

\* what an iteration that parsed the buffer with result r does to the consumed
\* position and the watermark
ConsumeRule(r) ==
    /\ r.t = "ok" => consumed' = consumed + (r.pos - 1)
    /\ r.t # "ok" => consumed' = consumed /\ group' = group

\* C16: the reader consumes only when the dispatcher decoded a record, and
\* then exactly the bytes the dispatcher consumed; need-more-bytes, a Parse
\* failure and a refill leave the consumed position and the watermark as they
\* were; the consumed position never passes the bytes buffered.
C16_ConsumeOnlyDecoded ==
    /\ [](consumed <= filled /\ filled <= Len(stream))
    /\ [][/\ AtParse => ConsumeRule(ItemParse(Buffer))
          /\ ~AtParse => consumed' = consumed /\ group' = group]_vars

\* a record was decoded and consumed, and the pull after it failed to parse
\* and left the consumed position where the record ended
C16_Witness ==
    /\ Len(out) = 2
    /\ IsOk(out[1])
    /\ out[2] = ResErr("Parse")
    /\ consumed > 0
    /\ consumed < filled
    /\ ItemParse(SubSeq(stream, 1, consumed)) = Ok(consumed + 1, out[1][2])

----------------------------------------------------------------------------
(* The scanner at the end of its input *)

\* C11: when the input holds no unbalanced closing delimiter, whatever the
\* depth at its end, the finished scan signals need-more-bytes: it is neither
\* an error nor a success whose content is the whole input.
C11_ExhaustedIsIncomplete ==
    (scanPc = "done" /\ Unbalanced(scanIn, scanOpen, scanClose) = {})
        => scanRes.t = "inc"

\* C18: the scan index stays within 0..=len(input) at every step and the
\* scanner always returns a result: it never slices past the end of the input.
C18_IndexWithinInput ==
    /\ index \in 0..Len(scanIn)
    /\ scanPc = "done" => scanRes.t # "panic"

----------------------------------------------------------------------------
(* Specification of the dispatcher, a record body and the field decoders   *)
(* applied once to a bounded input                                         *)

\* whole markers for Item::parse: known tags followed by a separator, known
\* tags running on into further bytes, tags in other case, unknown tags
ItemInputs ==
    {<<"#", "K", "O", "N", "T", "O", " ", "1", "2", "2", "0", " ", "a", "\n">>,
     <<"#", "K", "O", "N", "T", "O", "1", "2", "2", "0", " ", "a", "\n">>,
     <<"#", "K", "O", "N", "T", "O", "X", " ", "1", "2", "2", "0", " ", "a",
       "\n">>,
     <<"#", "k", "o", "n", "t", "o", " ", "1", "2", "2", "0", " ", "a", "\n">>,
     <<"#", "K", "O", "N", "T", " ", "1", "2", "2", "0", " ", "a", "\n">>,
     <<"#", "K", "O", "N", "T", "O", "\t", "1", "2", "2", "0", " ", "\"",
       "a", " ", "b", "\"", "\n">>,
     <<"#", "V", "E", "R", " ", "A", " ", "1", " ", "2", "0", "2", "3", "0",
       "3", "1", "4", " ", "{", "}", "\n">>,
     <<"#", "V", "E", "R", "A", " ", "1", " ", "2", "0", "2", "3", "0", "3",
       "1", "4", " ", "{", "}", "\n">>,
     <<"#", "V", "E", "R", "A", " ", "A", " ", "1", " ", "2", "0", "2", "3",
       "0", "3", "1", "4", " ", "{", "}", "\n">>,
     <<"#", "v", "e", "r", " ", "A", " ", "1", " ", "2", "0", "2", "3", "0",
       "3", "1", "4", " ", "{", "}", "\n">>,
     <<"#", "F", "L", "A", "G", "G", "A", " ", "1", "\n">>,
     <<"#", "F", "L", "A", "G", "G", "A", "1", "\n">>,
     <<"#", "F", "l", "a", "g", "g", "a", " ", "1", "\n">>,
     <<"#", "F", "L", "A", "G", "G", " ", "1", "\n">>,
     <<"#", "B", "K", "O", "D", " ", "x", "\n">>,
     <<"#", "B", "K", "O", "D", "x", "\n">>,
     <<"#", "B", "K", "O", "D", "E", "N", " ", "x", "\n">>,
     <<"#", "X", " ", "1", "\n">>,
     <<"#", "\n">>,
     <<"\n", " ", "#", "K", "O", "N", "T", "O", " ", "1", "2", "2", "0", " ",
       "a", "\n">>}

\* the repository's test of a VER with two TRANS lines
VerTestInput ==
    <<"#", "V", "E", "R", " ", "A", " ", "4", "2", " ", "2", "0", "2", "3",
      "0", "3", "1", "4", " ", "\"", "P", "i", " ", "D", "a", "y", "\"", " ",
      "2", "0", "2", "3", "0", "3", "1", "4", "\n", "{", "\n", " ", " ", " ",
      " ", "#", "T", "R", "A", "N", "S", " ", "1", "9", "3", "0", " ", "{",
      "}", " ", "-", "7", "2", ".", "0", "0", " ", "2", "0", "2", "3", "0",
      "2", "2", "8", " ", "\"", "P", "i", "e", "\"", "\n", " ", " ", " ",
      " ", "#", "T", "R", "A", "N", "S", " ", "4", "0", "0", "7", " ", "{",
      "}", " ", "7", "2", ".", "0", "0", " ", "2", "0", "2", "3", "0", "2",
      "2", "8", " ", "\"", "P", "i", "e", "\"", "\n", "}", "\n", "\n", "#",
      " ", "V", "E", "R", " ", "A", " ", "4", "3">>

\* what a brace region may be made of: TRANS lines, a line that is no marker,
\* blank space, a TRANS that runs up to the end of what precedes it, a TRANS
\* with an invalid account, a marker of another kind
TransLine1 == <<"#", "T", "R", "A", "N", "S", " ", "1", " ", "{", "}", " ", "1", "\n">>
TransLine2 == <<"#", "T", "R", "A", "N", "S", " ", "2", " ", "{", "}", " ", "2", "\n">>
GarbageLine == <<"x", "x", "\n">>
BlankSpace == <<"\n", " ", " ">>
TransOpenEnded == <<"#", "T", "R", "A", "N", "S", " ", "3", " ", "{", "}", " ", "3">>
TransBadAccount == <<"#", "T", "R", "A", "N", "S", " ", "x", " ", "{", "}", " ", "1", "\n">>
OtherMarker == <<"#", "F", "O", "O", "\n">>

RegionPieces ==
    {TransLine1, TransLine2, GarbageLine, BlankSpace, TransOpenEnded, TransBadAccount,
     OtherMarker}

MaxPieces == 3

\* the regions: up to n pieces one after the other
RECURSIVE RegionsOf(_)
RegionsOf(n) ==
    IF n = 0 THEN {<<>>}
    ELSE LET shorter == RegionsOf(n - 1)
         IN shorter \cup {r \o q : r \in shorter, q \in RegionPieces}

\* a SubItems<Trans> field: the region in braces and the line break after it
SubItemsInputs == {<<LBRACE>> \o r \o <<RBRACE, NL>> : r \in RegionsOf(MaxPieces)}

\* List<String> fields
ListInputs ==
    {<<"{", "}", "\n">>,
     <<"{", "a", "}", "\n">>,
     <<"{", "a", " ", "}", "\n">>,
     <<"{", " ", "a", "}", "\n">>,
     <<"{", "a", " ", "b", "}", "\n">>,
     <<"{", "\"", "a", "\"", "}", "\n">>,
     <<"{", "\"", "a", "\"", " ", "\"", "b", "\"", "}", "\n">>,
     <<"{", "\"", "a", "\"", "\"", "b", "\"", "}", "\n">>,
     <<"{", "1", " ", "\"", "a", " ", "b", "\"", "}", "\n">>}

\* tokens for bool and the enumerated literals: the literals, their proper
\* prefixes, and the literals followed by further bytes
LiteralTokens ==
    {<<"0">>,
     <<"1">>,
     <<"0", "1">>,
     <<"1", "0">>,
     <<"2">>,
     <<"0", "0">>,
     <<"P", "C", "8">>,
     <<"P", "C", "8", "X">>,
     <<"P", "C">>,
     <<"p", "c", "8">>,
     <<"4">>,
     <<"4", "2">>,
     <<"4", "4">>,
     <<"B", "A", "S", "9", "5">>,
     <<"B", "A", "S", "9", "6">>,
     <<"E", "U", "B", "A", "S", "9", "7">>,
     <<"N", "E", "2", "0", "0", "7">>,
     <<"B", "A", "S", "9">>,
     <<"B", "A", "S", "9", "5", "5">>,
     <<"B", "A", "S", "9", "7">>,
     <<"N", "E", "2", "0", "0", "7", "X">>,
     <<".">>}

LiteralTails == {<<>>, <<SP>>, <<NL>>, <<SP, "x", NL>>}

LiteralInputs == {t \o f : t \in LiteralTokens, f \in LiteralTails}

LiteralTypes == {"bool", "FormatType", "TypeNo", "ChartAccountsType"}

\* the literals each of these decoders allows
Literals(ty) ==
    CASE ty = "bool" -> {<<"0">>, <<"1">>}
      [] ty = "FormatType" -> {<<"P", "C", "8">>}
      [] ty = "TypeNo" -> {<<"4">>}
      [] ty = "ChartAccountsType" ->
           {<<"B", "A", "S", "9", "5">>, <<"B", "A", "S", "9", "6">>,
            <<"E", "U", "B", "A", "S", "9", "7">>, <<"N", "E", "2", "0", "0", "7">>}

\* the fields of a TRANS as they stand in a file, each with the blank before it
TransTexts ==
    <<<<" ", "1", "9", "3", "0">>,
      <<" ", "{", "}">>,
      <<" ", "5", "8", "3", ".", "5", "2">>,
      <<" ", "2", "0", "2", "3", "0", "3", "2", "0">>,
      <<" ", "\"", "S", "t", "o", "n", "k", "s", "\"">>,
      <<" ", "q", "1">>,
      <<" ", "\"", "s", "i", "g", "\"">>>>

\* the values of those fields
TransValues ==
    << <<"1", "9", "3", "0">>,
       <<>>,
       <<"5", "8", "3", ".", "5", "2">>,
       <<"Some", <<2023, 3, 20>>>>,
       <<"Some", <<"S", "t", "o", "n", "k", "s">>>>,
       <<"Some", <<"q", "1">>>>,
       <<"Some", <<"s", "i", "g">>>> >>

\* the text of a TRANS body in which the first k fields are present
RECURSIVE Present(_)
Present(k) == IF k = 0 THEN <<>> ELSE Present(k - 1) \o TransTexts[k]

\* its value: the first k fields and None for the others
PresentValue(k) ==
    [j \in 1..Len(TransFields) |-> IF j <= k THEN TransValues[j] ELSE <<"None">>]

BodyTails == {<<>>, <<NL>>, <<CR, NL>>, <<SP>>, <<SP, NL>>, <<TAB, TAB>>}

\* the inputs of the repository's test of Trans::parse_item
TransTestFull == <<" ", "1", "9", "3", "0", " ", "{", "}", " ", "1", "9", "2", ".", "0",
      "0", " ", "2", "0", "2", "3", "0", "3", "2", "0", " ", "\"", "S", "t",
      "o", "n", "k", "s", "\"", "\n">>
TransTestShort == <<" ", "1", "9", "3", "0", " ", "{", "}", "\t", "\t", " ", "5", "8", "3",
      ".", "5", "2", "\n">>
TransTestNoBreak == <<" ", "1", "9", "3", "0", " ", "{", "}", " ", "5", "8", "3", ".", "5",
      "2", " ", "\"", "S", "t", "o", "n", "k", "s", "\"">>

BodyInputs ==
    {Present(k) \o f : k \in 1..Len(TransFields), f \in BodyTails}
    \cup {TransTestFull, TransTestShort, TransTestNoBreak}

\* what is decoded and from which input
DecodeCases ==
    ({"Item"} \X (ItemInputs \cup {VerTestInput}))
    \cup ({"Trans"} \X BodyInputs)
    \cup ({"SubItems<Trans>"} \X SubItemsInputs)
    \cup ({"List<String>"} \X ListInputs)
    \cup (LiteralTypes \X LiteralInputs)

DecodeInit ==
    /\ \E c \in DecodeCases : fieldTy = c[1] /\ fieldIn = c[2]
    /\ fieldRes = NotApplied
    /\ ReaderIdle
    /\ ScanIdle

\* <fieldTy>::parse_field(Span::new(fieldIn)) for a field type
DecodeField ==
    /\ fieldTy \notin {"Item", "Trans"}
    /\ ApplyField

\* Item::parse(Span::new(fieldIn))
DecodeItem ==
    /\ fieldTy = "Item"
    /\ fieldRes = NotApplied
    /\ fieldRes' = ItemParse(fieldIn)
    /\ UNCHANGED <<fieldTy, fieldIn, readerVars, scanVars>>

\* Trans::parse_item(Span::new(fieldIn))
DecodeBody ==
    /\ fieldTy = "Trans"
    /\ fieldRes = NotApplied
    /\ fieldRes' = parse_item(TransFields, fieldIn, 1)
    /\ UNCHANGED <<fieldTy, fieldIn, readerVars, scanVars>>

DecodeNext == DecodeField \/ DecodeItem \/ DecodeBody

SpecDecode == DecodeInit /\ [][DecodeNext]_vars

----------------------------------------------------------------------------
(* Properties of the dispatcher and the decoders *)

Applied == fieldRes # NotApplied

\* the text of the marker the input starts with: the bytes after '#' up to the
\* next separator
MarkerText(i) ==
    LET h == FirstNotIn(FieldSep, i, 1)
    IN SubSeq(i, h + 1, FirstIn(FieldSep, i, h + 1) - 1)

KnownTags == {Kinds[k].tag : k \in 1..Len(Kinds)}

\* the tag of the record kind an item value belongs to
TagOf(item) == (CHOOSE k \in {Kinds[j] : j \in 1..Len(Kinds)} : k.name = item[1]).tag

\* C12: Item::parse decodes a record only when the text after '#' is exactly
\* a known tag, and then as the kind of that tag; a marker with any other
\* text, one that begins with a known tag and runs on included, is a failure.
C12_OnlyExactTagsDecode ==
    (Applied /\ fieldTy = "Item") =>
        /\ fieldRes.t = "ok" => MarkerText(fieldIn) = TagOf(fieldRes.val)
        /\ MarkerText(fieldIn) \notin KnownTags => fieldRes.t \in {"err", "fail"}

\* the brace region a SubItems or List field starts with, as the decoder gets it
RegionOf(ty, i) ==
    IF ty = "SubItems<Trans>"
    THEN in_curly_braces(i, FirstNotIn(FieldSep, i, 1))
    ELSE in_curly_braces(i, 1)

\* where many0 stopped decoding elements in region o
ElementsStop(ty, o) ==
    IF ty = "SubItems<Trans>"
    THEN Many0Items(TransLabel, TransFields, o, 1, <<>>).pos
    ELSE Many0Text(o, 1, <<>>).pos

\* the positions in o at which a marker of the kind with this label starts
MarkersAt(label, o) ==
    {k \in 1..(Len(o) - Len(label)) : SubSeq(o, k, k + Len(label)) = <<HASH>> \o label}

\* C13: when SubItems<T> or List<T> is decoded successfully from a closed
\* region, no element was left undecoded: after the last element returned the
\* region holds no further marker of the element kind (SubItems) and nothing
\* but separators (List); an element that fails to decode fails the field.
C13_ElementFailureFailsField ==
    (Applied /\ fieldRes.t = "ok") =>
        /\ fieldTy = "SubItems<Trans>" =>
              \A k \in MarkersAt(TransLabel, RegionOf(fieldTy, fieldIn).val) :
                  k < ElementsStop(fieldTy, RegionOf(fieldTy, fieldIn).val)
        /\ fieldTy = "List<String>" =>
              \A k \in 1..Len(RegionOf(fieldTy, fieldIn).val) :
                  k >= ElementsStop(fieldTy, RegionOf(fieldTy, fieldIn).val)
                      => RegionOf(fieldTy, fieldIn).val[k] \in FieldSep

\* the k-th member of a set of positions, in increasing order
NthOf(P, k) == CHOOSE p \in P : Cardinality({q \in P : q < p}) = k - 1

\* the record whose marker starts at position k of region o, read as a line:
\* its body decoded with a line break put after the region
RecordAt(label, fs, o, k) == parse_item(fs, o \o <<NL>>, k + 1 + Len(label))

\* region o holds only records of this kind that decode, and no other marker
OnlyRecordsOf(label, fs, o) ==
    /\ \A k \in 1..Len(o) : o[k] = HASH => k \in MarkersAt(label, o)
    /\ \A k \in MarkersAt(label, o) : RecordAt(label, fs, o, k).t = "ok"

\* the records of this kind that occur in region o, in file order
RecordsIn(label, fs, o) ==
    [j \in 1..Cardinality(MarkersAt(label, o)) |->
        RecordAt(label, fs, o, NthOf(MarkersAt(label, o), j)).val]

\* the accounts of the transactions of a decoded VER
VerAccounts(item) == [j \in 1..Len(item[2][7]) |-> item[2][7][j][1]]

\* C14: SubItems<TRANS> decoded from a region that holds TRANS records and
\* bytes that are no marker yields exactly those records in file order, the
\* empty list for an empty region, and the two transactions of the test's VER.
C14_ExactlyTheTransRecords ==
    /\ (/\ Applied
        /\ fieldTy = "SubItems<Trans>"
        /\ OnlyRecordsOf(TransLabel, TransFields, RegionOf(fieldTy, fieldIn).val))
          => /\ fieldRes.t = "ok"
             /\ fieldRes.val =
                   RecordsIn(TransLabel, TransFields, RegionOf(fieldTy, fieldIn).val)
    /\ (Applied /\ fieldTy = "Item" /\ fieldIn = VerTestInput)
          => /\ fieldRes.t = "ok"
             /\ VerAccounts(fieldRes.val) = << <<"1", "9", "3", "0">>, <<"4", "0", "0", "7">> >>

\* the token the input starts with: the bytes up to the next separator
TokenOf(i) == SubSeq(i, 1, FirstIn(TextStop, i, 1) - 1)

\* C15: the Boolean decoder and the decoders of the enumerated literals
\* succeed only when the whole next token is one of the allowed literals; a
\* token that starts with one and runs on (01, 42, PC8X) fails.
C15_WholeTokenIsLiteral ==
    (Applied /\ fieldTy \in LiteralTypes /\ fieldRes.t = "ok")
        => TokenOf(fieldIn) \in Literals(fieldTy)

\* C17: Trans::parse_item never takes the end of the buffered input for the
\* absence of a trailing optional field: a record whose last field came out
\* absent was decoded with a byte still following it; a body that ends right
\* after its last present field is need-more-bytes, not a record; and when a
\* line break follows, the remaining optional fields are None and the record
\* is returned with the line break left unconsumed.
C17_EndOfInputIsNotAbsence ==
    (Applied /\ fieldTy = "Trans") =>
        /\ (fieldRes.t = "ok" /\ fieldRes.val[Len(TransFields)] = <<"None">>)
              => fieldRes.pos <= Len(fieldIn)
        /\ \A k \in 3..(Len(TransFields) - 1) :
              fieldIn = Present(k) => fieldRes.t = "inc"
        /\ \A k \in 3..Len(TransFields) :
              fieldIn = Present(k) \o <<NL>>
                  => fieldRes = Ok(Len(Present(k)) + 1, PresentValue(k))
        /\ fieldIn = TransTestNoBreak => fieldRes.t = "inc"
        /\ fieldIn = TransTestShort => (fieldRes.t = "ok" /\ fieldRes.val[4] = <<"None">>)

\* the test's body that ends after its text field was answered with
\* need-more-bytes
C17_Witness ==
    /\ fieldTy = "Trans"
    /\ fieldIn = TransTestNoBreak
    /\ fieldRes.t = "inc"
====
